---- MODULE Spec2Model ----
(***************************************************************************)
(* The card administration front end: the Admin Shell (AdminPanel) that    *)
(* lists, deletes and duplicates cards and hosts the Card Editor, and the  *)
(* two revisions of the Card Editor kept in CardEditor.tsx (the tabbed     *)
(* editor with Next buttons, "variant 1", and the editor with a single     *)
(* Save Card button, "variant 2").  Every handler that awaits a remote     *)
(* call is split at its awaits: the part before an await issues the call   *)
(* and files the handler's closure (the values of the render it was        *)
(* created in) in `inflight`; the part after it runs when the response     *)
(* arrives, on the captured values, as React runs it.                      *)
(***************************************************************************)
EXTENDS Integers, Sequences, FiniteSets, TLC

\* ------------------------------------------------------------------ bounds
MaxCards    == 2      \* card ids the record store can hand out
MaxLinks    == 4      \* social-link ids the record store can hand out
MaxInflight == 2      \* remote calls and timers outstanding at once
MaxEdits    == 2      \* field mutations in one editor session
MaxItems    == 1      \* media items / reviews made in one editor session

MaxLen      == 3      \* characters typed or pasted into the username input

\* ------------------------------------------------------------- value sets
Null   == 0           \* a null id (no card, no user)
NULL   == "NULL"      \* a null / undefined string column
UserId == 1           \* the signed-in user's id

Titles    == {"", "Jane"}
Usernames == {"", "jane"}
Handles   == {"", "jd"}
Platforms == {"", "GitHub"}
AutoSyncPlatforms == <<"Twitter", "LinkedIn">>

CardColumns == {"id", "user_id", "title", "company", "email", "shape", "slug",
                "is_published", "view_count", "created_at", "updated_at"}

NoCard == [id |-> Null]
NoOp   == [kind |-> "none"]

\* JavaScript's a || b on strings: the empty string and null are falsy.
OrStr(a, b) == IF a \in {"", NULL} THEN b ELSE a

\* existingCard?.column : undefined when there is no card.
Col(card, c) == IF card.id = Null THEN NULL ELSE card[c]

\* { ...r } without the keys ks (object rest destructuring).
Without(r, ks) == [k \in (DOMAIN r) \ ks |-> r[k]]

\* { ...r, ...s } : the keys of s override those of r.
Spread(r, s) == s @@ r

\* All the orders in which the elements of the finite set S can be listed.
Perms(S) == {f \in [1..Cardinality(S) -> S] :
               \A i, j \in 1..Cardinality(S) : i # j => f[i] # f[j]}

\* ------------------------------------------------------------------- state
VARIABLES
  user,          \* useAuth().user: Null or the user's id
  dbCards,       \* the store's business_cards rows
  dbLinks,       \* the store's social_links rows
  cardSeq,       \* business_cards ids issued so far
  linkSeq,       \* social_links ids issued so far
  shellTab,      \* AdminPanel activeTab
  cards,         \* AdminPanel cards (the list as last loaded)
  loading,       \* AdminPanel loading
  editingCard,   \* AdminPanel editingCard: a row or NoCard
  variant,       \* which revision of CardEditor is built: 1 or 2
  activeTab,     \* CardEditor activeTab
  saving,        \* CardEditor saving
  formData,      \* CardEditor formData
  businessCard,  \* variant 1: id of the businessCard state, Null when null
  cardId,        \* variant 2: cardId state, Null when null
  socialLinks,   \* CardEditor socialLinks (local list)
  mediaItems,    \* CardEditor mediaItems: card ids the items were made for
  reviews,       \* CardEditor reviews: card ids the reviews were made for
  edits,         \* field mutations so far in this editor session
  inflight,      \* slot -> pending remote call or timer with its closure
  last           \* the most recent event (request, response, alert, callback)

shellVars  == <<shellTab, cards, loading, editingCard>>
editorVars == <<activeTab, saving, formData, businessCard, cardId,
                socialLinks, mediaItems, reviews, edits>>
dbVars     == <<dbCards, dbLinks, cardSeq, linkSeq>>
vars == <<user, dbCards, dbLinks, cardSeq, linkSeq, shellTab, cards, loading, editingCard,
          variant, activeTab, saving, formData, businessCard, cardId,
          socialLinks, mediaItems, reviews, edits, inflight, last>>

Slots == 1..MaxInflight
FreeSlots == {s \in Slots : inflight[s] = NoOp}
HasFree == FreeSlots # {}
\* The closure op is filed in the lowest free slot.
File(op) == [inflight EXCEPT ![CHOOSE s \in FreeSlots : \A t \in FreeSlots : s <= t] = op]

Outcomes == {"ok", "error", "throw"}

\* ------------------------------------------------------------ record store
CardIds == {c.id : c \in dbCards}
CardRow(id) == CHOOSE c \in dbCards : c.id = id

\* insert(payload): the store fills in the columns the payload leaves out.
\* Ids and timestamps come from the store's sequence.
InsertedCard(payload, id) ==
  [c \in CardColumns |->
     IF c \in DOMAIN payload THEN payload[c]
     ELSE CASE c = "id" -> id
            [] c = "created_at" -> id
            [] c = "updated_at" -> id
            [] c = "view_count" -> 0
            [] c = "is_published" -> FALSE
            [] OTHER -> NULL]

\* update(payload).eq('id', key): the matching row with the payload's columns.
UpdatedCards(payload, key) ==
  {IF c.id = key THEN Spread(c, payload) ELSE c : c \in dbCards}

\* select('*').eq('user_id', uid).order('updated_at', {ascending: false})
CardsOf(uid) ==
  LET mine == {c \in dbCards : c.user_id = uid}
  IN  CHOOSE f \in Perms(mine) :
        \A i, j \in 1..Cardinality(mine) :
          i < j => f[i].updated_at >= f[j].updated_at

\* select('*').eq('card_id', id).order('display_order'): every order the
\* store may return rows of equal display_order in.
LinksOf(id) ==
  LET mine == {l \in dbLinks : l.card_id = id}
  IN  {f \in Perms(mine) :
         \A i, j \in 1..Cardinality(mine) :
           i < j => f[i].display_order <= f[j].display_order}

\* -------------------------------------------------------------- the editor
UserEmail == IF user = Null THEN NULL ELSE "u@x.io"

\* useState<FormData>({...}) seeded from the existingCard prop.
SeedForm(card) ==
  [title          |-> OrStr(Col(card, "title"), ""),
   username       |-> OrStr(Col(card, "slug"), ""),
   globalUsername |-> "",
   company        |-> OrStr(Col(card, "company"), ""),
   email          |-> OrStr(OrStr(Col(card, "email"), UserEmail), ""),
   shape          |-> OrStr(Col(card, "shape"), "rectangle"),
   is_published   |-> IF card.id = Null THEN FALSE ELSE card.is_published]

Mounted == shellTab = "create"

\* The component's state when it is not rendered (React keeps none).
Unmount ==
  /\ activeTab' = "basic"
  /\ saving' = FALSE
  /\ formData' = SeedForm(NoCard)
  /\ businessCard' = Null
  /\ cardId' = Null
  /\ socialLinks' = <<>>
  /\ mediaItems' = <<>>
  /\ reviews' = <<>>
  /\ edits' = 0

\* First render of <CardEditor existingCard={card}>: the useState initial
\* values, then the effect that loads the card's social links.
Mount(card, pending) ==
  /\ activeTab' = "basic"
  /\ saving' = FALSE
  /\ formData' = SeedForm(card)
  /\ businessCard' = IF variant = 1 THEN card.id ELSE Null
  /\ cardId' = IF variant = 2 THEN card.id ELSE Null
  /\ socialLinks' = <<>>
  /\ mediaItems' = <<>>
  /\ reviews' = <<>>
  /\ edits' = 0
  /\ IF card.id = Null
       THEN inflight' = pending
       ELSE /\ \E s \in Slots : pending[s] = NoOp
            /\ inflight' =
                 [pending EXCEPT
                    ![CHOOSE s \in Slots : pending[s] = NoOp /\
                        \A t \in Slots : pending[t] = NoOp => s <= t] =
                      [kind |-> "loadLinks", live |-> TRUE, card |-> card.id]]

\* The closures of an unmounted editor: their remote calls still complete
\* and their callbacks into the shell still run, but React drops their
\* setState calls.
EditorKinds == {"loadLinks", "save", "addLink", "removeLink", "syncDelete",
                "syncInsert", "timer", "autoTimer", "autoSave", "editLink"}
Orphaned(pending) ==
  [s \in Slots |-> IF pending[s].kind \in EditorKinds
                     THEN [pending[s] EXCEPT !.live = FALSE]
                     ELSE pending[s]]

\* What a change of the shell's activeTab and editingCard does to the hosted
\* editor: {activeTab === 'create' && <CardEditor existingCard={editingCard}/>}.
Host(tab, card, pending) ==
  IF tab = "create" /\ ~Mounted THEN Mount(card, pending)
  ELSE IF tab # "create" /\ Mounted THEN Unmount /\ inflight' = pending
  ELSE UNCHANGED <<editorVars>> /\ inflight' = pending

\* ---------------------------------------------------------- the Admin Shell
InitStores ==
  { {},
    {[id |-> 1, user_id |-> UserId, title |-> "Jane", company |-> "Acme",
      email |-> "", shape |-> "rounded", slug |-> "jane",
      is_published |-> TRUE, view_count |-> 7,
      created_at |-> 1, updated_at |-> 1]},
    {[id |-> 1, user_id |-> UserId, title |-> "Jane", company |-> NULL,
      email |-> "j@x.io", shape |-> NULL, slug |-> NULL,
      is_published |-> FALSE, view_count |-> 0,
      created_at |-> 1, updated_at |-> 1]} }

\* A card that has a slug and is not published.
DraftWithSlug ==
  [id |-> 1, user_id |-> UserId, title |-> "Jane", company |-> "Acme",
   email |-> "", shape |-> NULL, slug |-> "jd",
   is_published |-> FALSE, view_count |-> 0,
   created_at |-> 1, updated_at |-> 1]

LoadOp(cont, id, cap) ==
  [kind |-> "load", cont |-> cont, cardId |-> id, capEditing |-> cap]

\* The shell after its first render, its list not loaded yet.
ShellInit ==
  /\ user \in {Null, UserId}
  /\ variant \in {1, 2}
  /\ dbCards \in InitStores \cup {{DraftWithSlug}}
  /\ dbLinks = {}
  /\ cardSeq = Cardinality(dbCards)
  /\ linkSeq = 0
  /\ shellTab = "cards"
  /\ cards = <<>>
  /\ loading = TRUE
  /\ editingCard = NoCard
  /\ activeTab = "basic"
  /\ saving = FALSE
  /\ formData = SeedForm(NoCard)
  /\ businessCard = Null
  /\ cardId = Null
  /\ socialLinks = <<>>
  /\ mediaItems = <<>>
  /\ reviews = <<>>
  /\ edits = 0
  \* useEffect(() => { if (user) loadUserCards() }, [user])
  /\ inflight = [s \in Slots |->
                   IF s = 1 /\ user # Null THEN LoadOp("none", Null, Null) ELSE NoOp]
  /\ last = [ev |-> "init", alert |-> ""]

\* loadUserCards, after its await: setCards(data) unless the select failed.
LoadUserCardsDone(s, outcome) ==
  LET op == inflight[s]
      back == op.cont = "delete" /\ op.capEditing = op.cardId
  IN  /\ op.kind = "load"
      /\ cards' = IF outcome = "ok" THEN CardsOf(user) ELSE cards
      /\ loading' = FALSE
      \* handleDeleteCard resumes: if (editingCard?.id === cardId) {...}
      /\ editingCard' = IF back THEN NoCard ELSE editingCard
      /\ shellTab' = IF back THEN "cards" ELSE shellTab
      /\ Host(IF back THEN "cards" ELSE shellTab, NoCard,
              [inflight EXCEPT ![s] = NoOp])
      /\ last' = [ev |-> "loaded", outcome |-> outcome, cont |-> op.cont,
                  alert |-> ""]
      /\ UNCHANGED <<user, variant, dbVars>>

HandleCreateCard ==
  /\ shellTab = "cards"
  /\ editingCard' = NoCard
  /\ shellTab' = "create"
  /\ Host("create", NoCard, inflight)
  /\ last' = [ev |-> "createCard", alert |-> ""]
  /\ UNCHANGED <<user, variant, dbVars, cards, loading>>

HandleEditCard(i) ==
  /\ shellTab = "cards" /\ ~loading
  /\ i \in 1..Len(cards)
  /\ editingCard' = cards[i]
  /\ shellTab' = "create"
  /\ Host("create", cards[i], inflight)
  /\ last' = [ev |-> "editCard", alert |-> ""]
  /\ UNCHANGED <<user, variant, dbVars, cards, loading>>

\* window.location.origin
Origins == {"https://cards.example", "http://localhost"}

\* copyCardUrl's url: `${window.location.origin}/c/${slug}`
CardUrl(origin, slug) == origin \o "/c/" \o slug

\* window.open(`/c/${card.slug}`, '_blank'): the path-absolute reference is
\* resolved against the document's origin.
OpenedUrl(origin, slug) == origin \o ("/c/" \o slug)

\* {card.slug && (<button title="Copy URL" .../>)}
CopyOffered(card) == card.slug # NULL /\ card.slug # ""

\* A View Card button that asks only for a slug.
OpenOfferedForAnySlug(card) == card.slug # NULL /\ card.slug # ""

\* {card.is_published && card.slug && (<button title="View Card" .../>)}
OpenOffered(card) ==
  card.is_published /\ card.slug # NULL /\ card.slug # ""

\* The Copy URL button of a card of the grid: copyCardUrl(card.slug), the
\* clipboard's promise resolved or rejected.
CopyCardUrl(i, origin, outcome) ==
  /\ shellTab = "cards" /\ ~loading
  /\ i \in 1..Len(cards)
  /\ CopyOffered(cards[i])
  /\ last' = [ev |-> "copyUrl", cardId |-> cards[i].id, origin |-> origin,
              url |-> CardUrl(origin, cards[i].slug),
              alert |-> IF outcome = "ok"
                          THEN "Card URL copied to clipboard!"
                          ELSE "Failed to copy URL. Please try again."]
  /\ UNCHANGED <<user, variant, dbVars, shellVars, editorVars, inflight>>

\* The View Card button of a card of the grid.
OpenCard(i, origin) ==
  /\ shellTab = "cards" /\ ~loading
  /\ i \in 1..Len(cards)
  /\ OpenOffered(cards[i])
  /\ last' = [ev |-> "openCard", cardId |-> cards[i].id, origin |-> origin,
              url |-> OpenedUrl(origin, cards[i].slug), alert |-> ""]
  /\ UNCHANGED <<user, variant, dbVars, shellVars, editorVars, inflight>>

\* A sidebar item: setActiveTab(item.id)
SidebarNav(tab) ==
  /\ tab # shellTab
  /\ shellTab' = tab
  /\ Host(tab, editingCard, inflight)
  /\ last' = [ev |-> "sidebar", tab |-> tab, alert |-> ""]
  /\ UNCHANGED <<user, variant, dbVars, cards, loading, editingCard>>

\* A delete that goes on whatever confirm() answered.
DeleteUnconfirmed(confirmed) == TRUE

\* if (!confirm('Are you sure ...')) return;
DeleteProceeds(confirmed) == confirmed

\* handleDeleteCard up to its first await; `confirmed` is confirm()'s answer.
HandleDeleteCard(i, confirmed) ==
  /\ shellTab = "cards" /\ ~loading
  /\ i \in 1..Len(cards)
  /\ IF DeleteProceeds(confirmed)
       THEN /\ HasFree
            /\ inflight' = File([kind |-> "delete", cardId |-> cards[i].id,
                                 capEditing |-> editingCard.id])
       ELSE inflight' = inflight
  /\ last' = [ev |-> "deleteCard", confirmed |-> confirmed,
              cardId |-> cards[i].id, alert |-> ""]
  /\ UNCHANGED <<user, variant, dbVars, shellVars, editorVars>>

\* A handler that goes on to loadUserCards() whatever the call returned.
ReloadsAlways(outcome) == TRUE

\* Whether handleDeleteCard / handleDuplicateCard go on to loadUserCards():
\* if (error) { ...; return; }, and a throw goes to the catch.
ReloadsAfter(outcome) == outcome = "ok"

\* handleDeleteCard from the delete's response to the await of loadUserCards
\* (which returns at once when there is no user).
DeleteDone(s, outcome) ==
  LET op == inflight[s]
      back == op.capEditing = op.cardId
  IN  /\ op.kind = "delete"
      /\ dbCards' = IF outcome = "ok" THEN {c \in dbCards : c.id # op.cardId}
                    ELSE dbCards
      /\ IF ReloadsAfter(outcome)
           THEN /\ IF user = Null
                     THEN /\ editingCard' = IF back THEN NoCard ELSE editingCard
                          /\ shellTab' = IF back THEN "cards" ELSE shellTab
                          /\ loading' = loading
                          /\ Host(IF back THEN "cards" ELSE shellTab, NoCard,
                                  [inflight EXCEPT ![s] = NoOp])
                     ELSE /\ loading' = TRUE
                          /\ inflight' = [inflight EXCEPT
                               ![s] = LoadOp("delete", op.cardId, op.capEditing)]
                          /\ UNCHANGED <<editingCard, shellTab, editorVars>>
           ELSE /\ inflight' = [inflight EXCEPT ![s] = NoOp]
                /\ UNCHANGED <<shellTab, loading, editingCard, editorVars>>
      /\ last' = [ev |-> "deleted", outcome |-> outcome, cardId |-> op.cardId,
                  alert |-> IF outcome = "ok" THEN "" ELSE "Failed to delete card"]
      /\ UNCHANGED <<user, variant, dbLinks, cardSeq, linkSeq, cards>>

\* `${title}`
Template(t) == IF t = NULL THEN "null" ELSE t

\* The copy without the is_published: false, view_count: 0 overrides.
DuplicateKeepingCounters(card) ==
  Spread(Without(card, {"id", "created_at", "updated_at", "slug"}),
         [title |-> IF card.title = NULL THEN "null (Copy)"
                    ELSE card.title \o " (Copy)"])

\* The row handleDuplicateCard inserts:
\* const { id, created_at, updated_at, slug, ...cardData } = card;
\* { ...cardData, title: `${card.title} (Copy)`, is_published: false, view_count: 0 }
DuplicatePayload(card) ==
  Spread(Without(card, {"id", "created_at", "updated_at", "slug"}),
         [title |-> Template(card.title) \o " (Copy)",
          is_published |-> FALSE,
          view_count |-> 0])

\* handleDuplicateCard up to its first await.
HandleDuplicateCard(i) ==
  /\ shellTab = "cards" /\ ~loading
  /\ i \in 1..Len(cards)
  /\ HasFree
  /\ cardSeq < MaxCards
  /\ inflight' = File([kind |-> "duplicate", source |-> cards[i],
                       payload |-> DuplicatePayload(cards[i])])
  /\ last' = [ev |-> "duplicateCard", source |-> cards[i], alert |-> ""]
  /\ UNCHANGED <<user, variant, dbVars, shellVars, editorVars>>

\* handleDuplicateCard ending in handleEditCard(data) on the inserted row.
OpensCopy(row) == <<"create", row>>

\* What handleDuplicateCard does to the shell's view after a successful
\* insert, besides reloading the list: nothing.
DuplicateNavigation(row) == <<shellTab, editingCard>>

\* handleDuplicateCard from the insert's response to the await of
\* loadUserCards.
DuplicateDone(s, outcome) ==
  LET op == inflight[s]
      row == InsertedCard(op.payload, cardSeq + 1)
  IN  /\ op.kind = "duplicate"
      /\ outcome = "ok" => cardSeq < MaxCards
      /\ dbCards' = IF outcome = "ok" THEN dbCards \cup {row} ELSE dbCards
      /\ cardSeq' = IF outcome = "ok" THEN cardSeq + 1 ELSE cardSeq
      /\ IF ReloadsAfter(outcome)
           THEN /\ loading' = (user # Null \/ loading)
                /\ inflight' = [inflight EXCEPT ![s] =
                       IF user = Null THEN NoOp ELSE LoadOp("none", Null, Null)]
                /\ shellTab' = DuplicateNavigation(row)[1]
                /\ editingCard' = DuplicateNavigation(row)[2]
                /\ Host(shellTab', editingCard', inflight')
           ELSE /\ inflight' = [inflight EXCEPT ![s] = NoOp]
                /\ UNCHANGED <<loading, shellTab, editingCard, editorVars>>
      /\ last' = [ev |-> "duplicated", outcome |-> outcome, source |-> op.source,
                  payload |-> op.payload,
                  row |-> IF outcome = "ok" THEN row ELSE NoCard,
                  alert |-> IF outcome = "ok" THEN ""
                            ELSE "Failed to duplicate card"]
      /\ UNCHANGED <<user, variant, dbLinks, linkSeq, cards>>

\* ------------------------------------------------- the editor's handlers
\* The persisted identity the editor holds: businessCard (variant 1) or
\* cardId (variant 2).
Identity == IF variant = 1 THEN businessCard ELSE cardId

\* loadCardData, after its await: setSocialLinks(socialData) if any came.
LoadCardDataDone(s, outcome) ==
  LET op == inflight[s]
  IN  /\ op.kind = "loadLinks"
      /\ inflight' = [inflight EXCEPT ![s] = NoOp]
      /\ IF outcome = "ok" /\ op.live
           THEN \E rows \in LinksOf(op.card) : socialLinks' = rows
           ELSE socialLinks' = socialLinks
      /\ last' = [ev |-> "linksLoaded", outcome |-> outcome, alert |-> ""]
      /\ UNCHANGED <<user, variant, dbVars, shellVars, activeTab, saving,
                     formData, businessCard, cardId, mediaItems, reviews, edits>>

FieldInputs ==
  ({"title"} \X Titles) \cup ({"username"} \X Usernames)
    \cup ({"is_published"} \X BOOLEAN)

\* An input's onChange: setFormData({...formData, [field]: value}) in
\* variant 1, handleInputChange(field, value) in variant 2.
SetField(field, value) ==
  /\ Mounted
  /\ <<field, value>> \in FieldInputs
  /\ formData[field] # value
  /\ edits < MaxEdits
  /\ edits' = edits + 1
  /\ IF variant = 1 THEN activeTab = "basic"
     ELSE field = "is_published" \/ activeTab = "basic"
  /\ formData' = [formData EXCEPT ![field] = value]
  /\ last' = [ev |-> "setField", alert |-> ""]
  /\ UNCHANGED <<user, variant, dbVars, shellVars, activeTab, saving,
                 businessCard, cardId, socialLinks, mediaItems, reviews,
                 inflight>>

\* handleGlobalUsernameChange (variant 1 only has the input).
HandleGlobalUsernameChange(username) ==
  /\ Mounted /\ variant = 1 /\ activeTab = "basic"
  /\ username \in Handles
  /\ formData.globalUsername # username
  /\ edits < MaxEdits
  /\ edits' = edits + 1
  /\ formData' = [formData EXCEPT !.globalUsername = username]
  /\ last' = [ev |-> "setField", alert |-> ""]
  /\ UNCHANGED <<user, variant, dbVars, shellVars, activeTab, saving,
                 businessCard, cardId, socialLinks, mediaItems, reviews,
                 inflight>>

EditorTabs == IF variant = 1
                THEN {"basic", "contact", "social", "media", "reviews", "design"}
                ELSE {"basic", "contact", "social", "media", "reviews", "design",
                      "preview"}

\* The characters an input value is made of here: lower-case and upper-case
\* ASCII letters, a digit, the hyphen, the underscore and a blank.
Chars == {"a", "B", "7", "-", "_", " "}

\* String.prototype.toLowerCase, character by character.
ToLowerCase(c) ==
  IF c = "B" THEN "b" ELSE c

\* The characters the username input's regular expression leaves: [a-z0-9]
\* in variant 1, [a-z0-9-] in variant 2.
UsernamePattern ==
  IF variant = 1 THEN {"a", "b", "7"} ELSE {"a", "b", "7", "-"}

\* The input without lower-casing it first.
FilterWithoutLowerCase(x) ==
  LET Kept(c) == c \in UsernamePattern IN SelectSeq(x, Kept)

\* e.target.value.toLowerCase().replace(/[^a-z0-9]/g, "") (variant 1),
\* ....replace(/[^a-z0-9-]/g, '') (variant 2), on the characters of x.
UsernameFilter(x) ==
  LET lowered == [i \in 1..Len(x) |-> ToLowerCase(x[i])]
      Kept(c) == c \in UsernamePattern
  IN  SelectSeq(lowered, Kept)

\* The string made of the characters of x.
RECURSIVE Join(_)
Join(x) == IF x = <<>> THEN "" ELSE Head(x) \o Join(Tail(x))

Inputs == UNION {[1..n -> Chars] : n \in 0..MaxLen}

\* The username input's onChange with e.target.value = x.
UsernameInput(x) ==
  /\ Mounted /\ activeTab = "basic"
  /\ x \in Inputs
  /\ formData' = [formData EXCEPT !.username = Join(UsernameFilter(x))]
  /\ last' = [ev |-> "usernameInput", input |-> x,
              stored |-> UsernameFilter(x), alert |-> ""]
  /\ UNCHANGED <<user, variant, dbVars, shellVars, activeTab, saving,
                 businessCard, cardId, socialLinks, mediaItems, reviews,
                 edits, inflight>>

\* The tab bar: onClick={() => setActiveTab(tab.id)}
TabClick(tab) ==
  /\ Mounted
  /\ tab \in EditorTabs /\ tab # activeTab
  /\ activeTab' = tab
  /\ last' = [ev |-> "tab", tab |-> tab, alert |-> ""]
  /\ UNCHANGED <<user, variant, dbVars, shellVars, saving, formData,
                 businessCard, cardId, socialLinks, mediaItems, reviews,
                 edits, inflight>>

\* cardData with slug: formData.username, without its || null.
CardDataWithRawSlug(form) ==
  [user_id      |-> user,
   title        |-> form.title,
   company      |-> form.company,
   email        |-> form.email,
   shape        |-> form.shape,
   is_published |-> form.is_published,
   slug         |-> form.username]

\* handleSave's cardData.
CardData(form) ==
  [user_id      |-> user,
   title        |-> form.title,
   company      |-> form.company,
   email        |-> form.email,
   shape        |-> form.shape,
   is_published |-> form.is_published,
   slug         |-> OrStr(form.username, NULL)]

\* The existingCard prop is the shell's editingCard.
existingCard == editingCard

\* handleSave's choice of call: if (existingCard) update ... eq('id',
\* existingCard.id) else insert.
SaveCall ==
  IF existingCard.id # Null
    THEN [op |-> "update", key |-> existingCard.id]
    ELSE [op |-> "insert", key |-> Null]

\* The tab a Next button moves to.
NextTab(origin) ==
  CASE origin = "basic" -> "contact"
    [] origin = "contact" -> "social"
    [] origin = "social" -> "media"
    [] origin = "media" -> "reviews"
    [] origin = "reviews" -> "design"
    [] OTHER -> origin

\* Whether the onClick that awaited handleSave goes on to change the tab:
\* the Basic tab's Next only if (savedCard); the other Next buttons always.
Advances(origin, saved) ==
  CASE origin = "basic" -> saved
    [] origin \in {"contact", "social", "media", "reviews"} -> TRUE
    [] OTHER -> FALSE

\* Whether the onClick that awaited handleSave goes on to schedule onSave:
\* the Design tab's Save does, whatever handleSave returned.
SchedulesOnSave(origin, saved) == origin = "design"

\* setBusinessCard(result.data) moved above the error check: a failed save
\* would store its null data.
IdentityDroppedOnFailure(identity) == Null

\* The identity the editor holds after a failed handleSave: the alert and
\* the return come before setBusinessCard.
IdentityAfterFailure(identity) == identity

\* handleSave without its setBusinessCard(result.data).
IdentityNotAdopted(identity, row) == identity

\* The identity the editor holds after a successful handleSave:
\* setBusinessCard(result.data).
AdoptedIdentity(identity, row) == row.id

\* An onSave prop without its setEditingCard(null).
OnSaveKeepingTarget(s, pending) ==
  /\ shellTab' = "cards"
  /\ editingCard' = editingCard
  /\ loading' = (user # Null \/ loading)
  /\ cards' = cards
  /\ IF Mounted THEN Unmount ELSE UNCHANGED editorVars
  /\ inflight' = [Orphaned(pending) EXCEPT ![s] =
                    IF user = Null THEN NoOp ELSE LoadOp("none", Null, Null)]

\* The shell's onSave prop: loadUserCards(); setActiveTab('cards');
\* setEditingCard(null).  `pending` has slot s free for the reload.
OnSave(s, pending) ==
  /\ shellTab' = "cards"
  /\ editingCard' = NoCard
  /\ loading' = (user # Null \/ loading)
  /\ cards' = cards
  /\ IF Mounted THEN Unmount ELSE UNCHANGED editorVars
  /\ inflight' = [Orphaned(pending) EXCEPT ![s] =
                    IF user = Null THEN NoOp ELSE LoadOp("none", Null, Null)]

\* The save controls with a Save Card button that is never disabled.
SaveControlNeverDisabled(origin) ==
  /\ Mounted
  /\ IF variant = 1
       THEN /\ origin = activeTab
            /\ origin \in {"media", "reviews"} => businessCard # Null
       ELSE origin = "saveCard"

\* The controls that call handleSave: a Next button of variant 1 (origin is
\* its tab), the Design tab's Save of variant 1 ("design"), the Save Card
\* button of variant 2 ("saveCard").
SaveControl(origin) ==
  /\ Mounted
  /\ IF variant = 1
       THEN /\ origin = activeTab
            /\ origin \in {"media", "reviews"} => businessCard # Null
       ELSE /\ origin = "saveCard"
            /\ ~(saving \/ formData.title = "" \/ formData.username = "")

\* A click on a save control, up to handleSave's await.  Without a user
\* handleSave returns at once and the onClick goes on.
HandleSave(origin) ==
  /\ SaveControl(origin)
  /\ HasFree
  /\ IF user = Null
       THEN /\ activeTab' = IF Advances(origin, FALSE) THEN NextTab(origin)
                            ELSE activeTab
            /\ inflight' = IF SchedulesOnSave(origin, FALSE)
                             THEN File([kind |-> "timer", live |-> TRUE,
                                        outcome |-> "skipped"])
                             ELSE inflight
            /\ saving' = saving
            /\ last' = [ev |-> "saveSkipped", origin |-> origin, alert |-> ""]
       ELSE /\ SaveCall.op = "insert" => cardSeq < MaxCards
            /\ saving' = TRUE
            /\ inflight' = File([kind |-> "save", live |-> TRUE,
                                 origin |-> origin, op |-> SaveCall.op,
                                 key |-> SaveCall.key,
                                 payload |-> CardData(formData)])
            /\ activeTab' = activeTab
            /\ last' = [ev |-> "saveIssued", origin |-> origin,
                        op |-> SaveCall.op, key |-> SaveCall.key,
                        payload |-> CardData(formData),
                        identity |-> Identity, alert |-> ""]
  /\ UNCHANGED <<user, variant, dbVars, shellVars, formData, businessCard,
                 cardId, socialLinks, mediaItems, reviews, edits>>

\* handleSave from the response on, and the rest of the onClick that awaited
\* it.  update(...).single() on a row that is gone is an error.
SaveDone(s, outcome) ==
  LET op == inflight[s]
      row == IF op.op = "insert" THEN InsertedCard(op.payload, cardSeq + 1)
             ELSE Spread(CardRow(op.key), op.payload)
      saved == outcome = "ok"
      freed == [inflight EXCEPT ![s] = NoOp]
  IN  /\ op.kind = "save"
      /\ saved /\ op.op = "insert" => cardSeq < MaxCards
      /\ saved /\ op.op = "update" => op.key \in CardIds
      /\ dbCards' = IF ~saved THEN dbCards
                    ELSE IF op.op = "insert" THEN dbCards \cup {row}
                    ELSE UpdatedCards(op.payload, op.key)
      /\ cardSeq' = IF saved /\ op.op = "insert" THEN cardSeq + 1 ELSE cardSeq
      /\ IF variant = 2 /\ saved
           THEN \* setCardId(result.data.id); onSave()
                OnSave(s, freed)
           ELSE /\ UNCHANGED <<shellVars, formData, cardId, socialLinks,
                               mediaItems, reviews, edits>>
                /\ saving' = IF op.live THEN FALSE ELSE saving
                /\ businessCard' =
                     IF ~op.live \/ variant = 2 THEN businessCard
                     ELSE IF saved THEN AdoptedIdentity(businessCard, row)
                     ELSE IdentityAfterFailure(businessCard)
                /\ activeTab' =
                     IF op.live /\ Advances(op.origin, saved)
                       THEN NextTab(op.origin) ELSE activeTab
                /\ inflight' =
                     IF SchedulesOnSave(op.origin, saved)
                       THEN [inflight EXCEPT ![s] =
                               [kind |-> "timer", live |-> op.live,
                                outcome |-> outcome]]
                       ELSE freed
      /\ last' = [ev |-> "saveDone", outcome |-> outcome, origin |-> op.origin,
                  op |-> op.op, live |-> op.live,
                  id |-> IF saved THEN row.id ELSE Null,
                  alert |-> IF saved THEN "" ELSE "Failed to save card"]
      /\ UNCHANGED <<user, variant, dbLinks, linkSeq>>

\* setTimeout(() => { onSave() }, 4000) of the Design tab's Save fires.
OnSaveTimer(s) ==
  /\ inflight[s].kind = "timer"
  /\ OnSave(s, [inflight EXCEPT ![s] = NoOp])
  /\ last' = [ev |-> "onSave", outcome |-> inflight[s].outcome, alert |-> ""]
  /\ UNCHANGED <<user, variant, dbVars>>

\* The Cancel button of variant 2: the shell's onCancel prop.
OnCancel ==
  /\ Mounted /\ variant = 2
  /\ shellTab' = "cards"
  /\ editingCard' = NoCard
  /\ Unmount
  /\ inflight' = Orphaned(inflight)
  /\ last' = [ev |-> "onCancel", alert |-> ""]
  /\ UNCHANGED <<user, variant, dbVars, cards, loading>>

\* ------------------------------------------------------------- auto-save
\* The editor's timed auto-save (the revision that uses the autoSaving state
\* declared in CardEditor): a field mutation resets the single idle timer;
\* the timer is armed only with a persisted identity and no manual save in
\* flight; 3000 ms later it fires autoSave, which updates the card.

\* A mutation that schedules its timer without clearing the pending one.
TimerKept(pending) == pending

\* clearTimeout of the pending idle timer.
TimerCleared(pending) ==
  [s \in Slots |-> IF pending[s].kind = "autoTimer" THEN NoOp ELSE pending[s]]

\* Whether a field mutation arms the idle timer.
ArmsAutoSave == Identity # Null /\ ~saving

\* A field mutation with its effect on the idle timer.
MutateField(field, value) ==
  LET cleared == TimerCleared(inflight)
      free == {s \in Slots : cleared[s] = NoOp}
      slot == CHOOSE s \in free : \A t \in free : s <= t
      form == [formData EXCEPT ![field] = value]
  IN  /\ Mounted
      /\ <<field, value>> \in FieldInputs
      /\ formData[field] # value
      /\ edits < MaxEdits
      /\ edits' = edits + 1
      /\ IF variant = 1 THEN activeTab = "basic"
         ELSE field = "is_published" \/ activeTab = "basic"
      /\ formData' = form
      /\ IF ArmsAutoSave
           THEN /\ free # {}
                /\ inflight' = [cleared EXCEPT ![slot] =
                       [kind |-> "autoTimer", live |-> TRUE, key |-> Identity,
                        payload |-> CardData(form)]]
           ELSE inflight' = cleared
      /\ last' = [ev |-> "mutated", armed |-> ArmsAutoSave, alert |-> ""]
      /\ UNCHANGED <<user, variant, dbVars, shellVars, activeTab, saving,
                     businessCard, cardId, socialLinks, mediaItems, reviews>>

\* The idle timer fires after 3000 ms without a mutation: autoSave issues
\* its update (a timer of an unmounted editor was cleared).
AutoSaveTick(s) ==
  LET op == inflight[s]
  IN  /\ op.kind = "autoTimer"
      /\ inflight' = [inflight EXCEPT ![s] =
                        IF op.live THEN [op EXCEPT !.kind = "autoSave"] ELSE NoOp]
      /\ last' = IF op.live
                   THEN [ev |-> "autoSaveIssued", key |-> op.key,
                         payload |-> op.payload, alert |-> ""]
                   ELSE [ev |-> "autoTimerCleared", alert |-> ""]
      /\ UNCHANGED <<user, variant, dbVars, shellVars, editorVars>>

\* What autoSave tells the user when its update fails: nothing (it logs).
AutoSaveAlert(outcome) == ""

\* autoSave after its await.
AutoSaveDone(s, outcome) ==
  LET op == inflight[s]
      saved == outcome = "ok"
  IN  /\ op.kind = "autoSave"
      /\ saved => op.key \in CardIds
      /\ dbCards' = IF saved THEN UpdatedCards(op.payload, op.key) ELSE dbCards
      /\ inflight' = [inflight EXCEPT ![s] = NoOp]
      /\ last' = [ev |-> "autoSaveDone", outcome |-> outcome, key |-> op.key,
                  alert |-> AutoSaveAlert(outcome)]
      /\ UNCHANGED <<user, variant, dbLinks, cardSeq, linkSeq, shellVars,
                     editorVars>>

\* ------------------------------------------------------ snapshot import
\* importSnapshot (the revision with the Upload / Download controls whose
\* icons CardEditor imports): the draft is replaced by the parsed file's
\* fields and child collections; a file that does not parse raises an alert.

\* An import that keeps the snapshot's username as it is.
UsernameAsExported(username) == username

\* The username of an imported draft: the snapshot's with the fixed suffix.
ImportedUsername(username) == username \o "-imported"

SnapshotLinks ==
  {<<>>,
   <<[id |-> 9, card_id |-> 9, platform |-> "GitHub", username |-> "bob",
      url |-> "GitHub/bob", display_order |-> 5, is_active |-> TRUE,
      is_auto_synced |-> FALSE]>>}

\* The documents a user may pick: any fields and child collections, valid
\* for a card or not.
Snapshots ==
  [username : {"", "bob", "Bob B"}, title : {"Bob"},
   company : {"Acme"}, email : {"not an email"}, shape : {"hexagon"},
   is_published : {TRUE}, globalUsername : {""},
   socialLinks : SnapshotLinks, mediaItems : {<<>>, <<9>>},
   reviews : {<<9>>}]

FormFields == {"title", "username", "globalUsername", "company", "email",
               "shape", "is_published"}

\* importSnapshot(blob): `parsed` tells whether the file parsed.
ImportSnapshot(snapshot, parsed) ==
  /\ Mounted
  /\ snapshot \in Snapshots
  /\ IF parsed
       THEN /\ formData' = [f \in FormFields |->
                              IF f = "username"
                                THEN ImportedUsername(snapshot.username)
                                ELSE snapshot[f]]
            /\ socialLinks' = snapshot.socialLinks
            /\ mediaItems' = snapshot.mediaItems
            /\ reviews' = snapshot.reviews
       ELSE UNCHANGED <<formData, socialLinks, mediaItems, reviews>>
  /\ last' = [ev |-> "imported", parsed |-> parsed, snapshot |-> snapshot,
              alert |-> IF parsed THEN "" ELSE "Invalid file"]
  /\ UNCHANGED <<user, variant, dbVars, shellVars, activeTab, saving,
                 businessCard, cardId, edits, inflight>>

\* ------------------------------------------------ social links and children
\* generateSocialLink(platform, username) of utils/socialUtils.
GenerateSocialLink(platform, username) == platform \o "/" \o username

\* generateAutoSyncedLinks(username) of utils/socialUtils: one link per
\* platform, all on the shared handle.
GenerateAutoSyncedLinks(username) ==
  [i \in 1..Len(AutoSyncPlatforms) |->
     [platform |-> AutoSyncPlatforms[i], username |-> username,
      url |-> GenerateSocialLink(AutoSyncPlatforms[i], username)]]

\* social_links insert: the store adds the id and the defaults.
InsertedLink(payload, id) ==
  [id |-> id, card_id |-> payload.card_id, platform |-> payload.platform,
   username |-> payload.username, url |-> payload.url,
   display_order |-> payload.display_order, is_active |-> payload.is_active,
   is_auto_synced |-> IF "is_auto_synced" \in DOMAIN payload
                        THEN payload.is_auto_synced ELSE FALSE]

\* The guard without its !businessCard / !cardId test.
MayAddWithoutCard(platform, username) == platform # "" /\ username # ""

\* The guard of handleAddSocialLink / addSocialLink (with SocialLinkForm's
\* handleSubmit): a persisted card, a platform and a handle.
MayAddSocialLink(platform, username) ==
  Identity # Null /\ platform # "" /\ username # ""

\* display_order of a new link: socialLinks.length of the handler's render.
AddDisplayOrder(links) == Len(links)

\* The row handleAddSocialLink / addSocialLink inserts.
NewLinkPayload(platform, username) ==
  LET row == [card_id |-> Identity, platform |-> platform,
              username |-> username,
              url |-> GenerateSocialLink(platform, username),
              display_order |-> AddDisplayOrder(socialLinks),
              is_active |-> TRUE]
  IN  IF variant = 1 THEN Spread(row, [is_auto_synced |-> FALSE]) ELSE row

\* handleAddSocialLink / addSocialLink up to the await.
HandleAddSocialLink(platform, username) ==
  /\ Mounted /\ activeTab = "social"
  /\ IF MayAddSocialLink(platform, username)
       THEN /\ HasFree
            /\ linkSeq < MaxLinks
            /\ inflight' = File([kind |-> "addLink", live |-> TRUE,
                                 row |-> NewLinkPayload(platform, username),
                                 capLinks |-> socialLinks])
            /\ last' = [ev |-> "linkInsertIssued",
                        rows |-> <<NewLinkPayload(platform, username)>>,
                        identity |-> Identity, alert |-> ""]
       ELSE /\ inflight' = inflight
            /\ last' = [ev |-> "addLinkIgnored", identity |-> Identity,
                        platform |-> platform, username |-> username,
                        alert |-> ""]
  /\ UNCHANGED <<user, variant, dbVars, shellVars, editorVars>>

\* A handler that updates the local list whatever the call returned.
AppliesLocallyAlways(outcome) == TRUE

\* Whether the handler reaches its setSocialLinks: if (error) { ...; return; }
\* and a throw goes to the catch, which only logs.
AppliesLocally(outcome) == outcome = "ok"

\* handleAddSocialLink / addSocialLink after the await:
\* setSocialLinks([...socialLinks, data]) on the captured list.
AddSocialLinkDone(s, outcome) ==
  LET op == inflight[s]
      row == InsertedLink(op.row, linkSeq + 1)
      added == outcome = "ok"
  IN  /\ op.kind = "addLink"
      /\ added => linkSeq < MaxLinks
      /\ dbLinks' = IF added THEN dbLinks \cup {row} ELSE dbLinks
      /\ linkSeq' = IF added THEN linkSeq + 1 ELSE linkSeq
      /\ socialLinks' = IF AppliesLocally(outcome) /\ op.live
                          THEN Append(op.capLinks, row)
                        ELSE socialLinks
      /\ inflight' = [inflight EXCEPT ![s] = NoOp]
      /\ last' = [ev |-> "linkAdded", outcome |-> outcome, alert |-> ""]
      /\ UNCHANGED <<user, variant, dbCards, cardSeq, shellVars, activeTab,
                     saving, formData, businessCard, cardId, mediaItems,
                     reviews, edits>>

\* handleRemoveSocialLink / removeSocialLink up to the await.
HandleRemoveSocialLink(i) ==
  /\ Mounted /\ activeTab = "social"
  /\ i \in 1..Len(socialLinks)
  /\ HasFree
  /\ inflight' = File([kind |-> "removeLink", live |-> TRUE,
                       linkId |-> socialLinks[i].id,
                       capLinks |-> socialLinks])
  /\ last' = [ev |-> "linkDeleteIssued", linkId |-> socialLinks[i].id,
              alert |-> ""]
  /\ UNCHANGED <<user, variant, dbVars, shellVars, editorVars>>

\* ... after the await: setSocialLinks(socialLinks.filter(l => l.id !== id))
\* on the captured list.
RemoveSocialLinkDone(s, outcome) ==
  LET op == inflight[s]
      removed == outcome = "ok"
      Kept(l) == l.id # op.linkId
  IN  /\ op.kind = "removeLink"
      /\ dbLinks' = IF removed THEN {l \in dbLinks : Kept(l)} ELSE dbLinks
      /\ socialLinks' = IF AppliesLocally(outcome) /\ op.live
                          THEN SelectSeq(op.capLinks, Kept)
                        ELSE socialLinks
      /\ inflight' = [inflight EXCEPT ![s] = NoOp]
      /\ last' = [ev |-> "linkRemoved", outcome |-> outcome, alert |-> ""]
      /\ UNCHANGED <<user, variant, dbCards, cardSeq, linkSeq, shellVars,
                     activeTab, saving, formData, businessCard, cardId,
                     mediaItems, reviews, edits>>

\* The guard of handleAutoSyncSocialLinks.
MayAutoSync == businessCard # Null /\ formData.globalUsername # ""

\* The rows handleAutoSyncSocialLinks inserts:
\* display_order: socialLinks.length + index.
AutoSyncRows ==
  LET gen == GenerateAutoSyncedLinks(formData.globalUsername)
  IN  [i \in 1..Len(gen) |->
         [card_id |-> businessCard, platform |-> gen[i].platform,
          username |-> gen[i].username, url |-> gen[i].url,
          display_order |-> Len(socialLinks) + (i - 1),
          is_active |-> TRUE, is_auto_synced |-> TRUE]]

\* The local list handleAutoSyncSocialLinks sets after a successful insert:
\* [...socialLinks, ...data] on the captured list.
AutoSyncedList(captured, data) == captured \o data

\* handleAutoSyncSocialLinks up to its first await (the delete of the
\* card's auto-synced links).  The buttons show only with a global username.
HandleAutoSyncSocialLinks ==
  /\ Mounted /\ variant = 1 /\ activeTab = "social"
  /\ formData.globalUsername # ""
  /\ IF MayAutoSync
       THEN /\ HasFree
            /\ linkSeq + Len(AutoSyncPlatforms) <= MaxLinks
            /\ inflight' = File([kind |-> "syncDelete", live |-> TRUE,
                                 card |-> businessCard, rows |-> AutoSyncRows,
                                 capLinks |-> socialLinks,
                                 deleted |-> "pending"])
            /\ last' = [ev |-> "syncIssued", identity |-> businessCard,
                        alert |-> ""]
       ELSE /\ inflight' = inflight
            /\ last' = [ev |-> "syncIgnored", identity |-> businessCard,
                        alert |-> ""]
  /\ UNCHANGED <<user, variant, dbVars, shellVars, editorVars>>

\* ... from the delete's response (its result is not looked at; only a throw
\* ends the handler) to the await of the insert.
AutoSyncDeleted(s, outcome) ==
  LET op == inflight[s]
  IN  /\ op.kind = "syncDelete"
      /\ dbLinks' = IF outcome = "ok"
                      THEN {l \in dbLinks :
                              ~(l.card_id = op.card /\ l.is_auto_synced)}
                      ELSE dbLinks
      /\ inflight' = [inflight EXCEPT ![s] =
                        IF outcome = "throw" THEN NoOp
                        ELSE [op EXCEPT !.kind = "syncInsert",
                                        !.deleted = outcome]]
      /\ last' = IF outcome = "throw"
                   THEN [ev |-> "syncDone", outcome |-> outcome,
                         alert |-> "Failed to auto-sync social links"]
                   ELSE [ev |-> "linkInsertIssued", rows |-> op.rows,
                         identity |-> op.card, alert |-> ""]
      /\ UNCHANGED <<user, variant, dbCards, cardSeq, linkSeq, shellVars,
                     editorVars>>

\* ... from the insert's response on.
AutoSyncInserted(s, outcome) ==
  LET op == inflight[s]
      n == Len(op.rows)
      data == [i \in 1..n |-> InsertedLink(op.rows[i], linkSeq + i)]
      synced == outcome = "ok"
  IN  /\ op.kind = "syncInsert"
      /\ synced => linkSeq + n <= MaxLinks
      /\ dbLinks' = IF synced THEN dbLinks \cup {data[i] : i \in 1..n}
                    ELSE dbLinks
      /\ linkSeq' = IF synced THEN linkSeq + n ELSE linkSeq
      /\ socialLinks' = IF synced /\ op.live
                          THEN AutoSyncedList(op.capLinks, data)
                          ELSE socialLinks
      /\ inflight' = [inflight EXCEPT ![s] = NoOp]
      /\ last' = [ev |-> "syncDone", outcome |-> outcome,
                  deleted |-> op.deleted,
                  alert |-> IF synced THEN "Social links auto-synced"
                            ELSE "Failed to auto-sync social links"]
      /\ UNCHANGED <<user, variant, dbCards, cardSeq, shellVars, activeTab,
                     saving, formData, businessCard, cardId, mediaItems,
                     reviews, edits>>

\* An edit that leaves the link's is_auto_synced flag as it is.
EditKeepingFlag(link, username) ==
  [link EXCEPT !.username = username,
               !.url = GenerateSocialLink(link.platform, username)]

\* What handleSocialLinkEdit writes to the link, in the store and in the
\* local list: { username: newUsername, url: newUrl, is_auto_synced: false }
EditedLink(link, username) ==
  [link EXCEPT !.username = username,
               !.url = GenerateSocialLink(link.platform, username),
               !.is_auto_synced = FALSE]

\* handleSocialLinkEdit up to its await: the onChange of a listed link's
\* handle input (variant 1 only has the input).
HandleSocialLinkEdit(i, newUsername) ==
  /\ Mounted /\ variant = 1 /\ activeTab = "social"
  /\ i \in 1..Len(socialLinks)
  /\ newUsername \in Handles /\ newUsername # socialLinks[i].username
  /\ HasFree
  /\ edits < MaxEdits
  /\ edits' = edits + 1
  /\ inflight' = File([kind |-> "editLink", live |-> TRUE,
                       linkId |-> socialLinks[i].id, username |-> newUsername,
                       capLinks |-> socialLinks])
  /\ last' = [ev |-> "linkEditIssued", linkId |-> socialLinks[i].id,
              alert |-> ""]
  /\ UNCHANGED <<user, variant, dbVars, shellVars, activeTab, saving,
                 formData, businessCard, cardId, socialLinks, mediaItems,
                 reviews>>

\* ... after the await: update(...).eq('id', linkId) on the store, then
\* setSocialLinks(socialLinks.map(...)) on the captured list.
SocialLinkEditDone(s, outcome) ==
  LET op == inflight[s]
      Edit(l) == IF l.id = op.linkId THEN EditedLink(l, op.username) ELSE l
  IN  /\ op.kind = "editLink"
      /\ dbLinks' = IF outcome = "ok" THEN {Edit(l) : l \in dbLinks}
                    ELSE dbLinks
      /\ socialLinks' = IF AppliesLocally(outcome) /\ op.live
                          THEN [j \in DOMAIN op.capLinks |-> Edit(op.capLinks[j])]
                        ELSE socialLinks
      /\ inflight' = [inflight EXCEPT ![s] = NoOp]
      /\ last' = [ev |-> "linkEdited", linkId |-> op.linkId,
                  outcome |-> outcome, alert |-> ""]
      /\ UNCHANGED <<user, variant, dbCards, cardSeq, linkSeq, shellVars,
                     activeTab, saving, formData, businessCard, cardId,
                     mediaItems, reviews, edits>>

\* {activeTab === tab && businessCard && <MediaUpload|ReviewsManager .../>}
\* (cardId in variant 2): whether the sub-editor of `tab` is rendered.
SubEditorShown(tab) == Mounted /\ activeTab = tab /\ Identity # Null

\* MediaUpload creates an item for the cardId it was given and reports the
\* new list through onMediaChange.
OnMediaChange ==
  /\ SubEditorShown("media")
  /\ Len(mediaItems) < MaxItems
  /\ mediaItems' = Append(mediaItems, Identity)
  /\ last' = [ev |-> "mediaChange", card_id |-> Identity, alert |-> ""]
  /\ UNCHANGED <<user, variant, dbVars, shellVars, activeTab, saving,
                 formData, businessCard, cardId, socialLinks, reviews, edits,
                 inflight>>

\* ReviewsManager, likewise, through onReviewsChange.
OnReviewsChange ==
  /\ SubEditorShown("reviews")
  /\ Len(reviews) < MaxItems
  /\ reviews' = Append(reviews, Identity)
  /\ last' = [ev |-> "reviewsChange", card_id |-> Identity, alert |-> ""]
  /\ UNCHANGED <<user, variant, dbVars, shellVars, activeTab, saving,
                 formData, businessCard, cardId, socialLinks, mediaItems,
                 edits, inflight>>

ShellTabs == {"cards", "create", "analytics", "settings"}

ShellNext ==
  \/ \E s \in Slots, o \in {"ok", "error"} : LoadUserCardsDone(s, o)
  \/ HandleCreateCard
  \/ \E i \in 1..MaxCards : HandleEditCard(i)
  \/ \E t \in ShellTabs : SidebarNav(t)
  \/ \E i \in 1..MaxCards, c \in BOOLEAN : HandleDeleteCard(i, c)
  \/ \E s \in Slots, o \in Outcomes : DeleteDone(s, o)
  \/ \E i \in 1..MaxCards : HandleDuplicateCard(i)
  \/ \E s \in Slots, o \in Outcomes : DuplicateDone(s, o)
  \/ \E i \in 1..MaxCards, origin \in Origins, o \in {"ok", "error"} :
       CopyCardUrl(i, origin, o)
  \/ \E i \in 1..MaxCards, origin \in Origins : OpenCard(i, origin)
  \/ \E s \in Slots, o \in Outcomes : LoadCardDataDone(s, o)
  \/ OnCancel

\* One session of the editor, from its first render (on a new draft or on a
\* card of the list) until the shell takes control back.
StoredLinks ==
  {[id |-> 1, card_id |-> 1, platform |-> "GitHub", username |-> "jd",
    url |-> "GitHub/jd", display_order |-> 0, is_active |-> TRUE,
    is_auto_synced |-> FALSE],
   [id |-> 2, card_id |-> 1, platform |-> "Twitter", username |-> "old",
    url |-> "Twitter/old", display_order |-> 1, is_active |-> TRUE,
    is_auto_synced |-> TRUE]}

\* The editor's first render on `editingCard`, the store holding `stored`
\* cards and `links`.
Session(stored, links) ==
  /\ dbCards = stored
  /\ dbLinks = links
  /\ cardSeq = Cardinality(stored)
  /\ linkSeq = Cardinality(links)
  /\ shellTab = "create"
  /\ cards = IF user = Null THEN <<>> ELSE CardsOf(user)
  /\ loading = (user = Null)
  /\ editingCard \in IF stored = {} \/ user = Null THEN {NoCard} ELSE stored
  /\ activeTab = "basic"
  /\ saving = FALSE
  /\ formData = SeedForm(editingCard)
  /\ businessCard = IF variant = 1 THEN editingCard.id ELSE Null
  /\ cardId = IF variant = 2 THEN editingCard.id ELSE Null
  /\ socialLinks = <<>>
  /\ mediaItems = <<>>
  /\ reviews = <<>>
  /\ edits = 0
  \* useEffect(() => { if (existingCard) loadCardData() }, [existingCard])
  /\ inflight = [s \in Slots |->
                   IF s = 1 /\ editingCard.id # Null
                     THEN [kind |-> "loadLinks", live |-> TRUE,
                           card |-> editingCard.id]
                     ELSE NoOp]
  /\ last = [ev |-> "init", alert |-> ""]

Init ==
  /\ user \in {Null, UserId}
  /\ variant \in {1, 2}
  /\ \E stored \in InitStores : Session(stored, {})

LinksInit ==
  /\ user = UserId
  /\ variant \in {1, 2}
  /\ \E stored \in InitStores, links \in {{}, StoredLinks} :
       /\ links # {} => stored # {} /\ \A c \in stored : c.is_published
       /\ stored # {} => \A c \in stored : c.is_published
       /\ Session(stored, links)

Next ==
  \/ \E s \in Slots, o \in {"ok", "error"} : LoadUserCardsDone(s, o)
  \/ \E s \in Slots, o \in Outcomes : LoadCardDataDone(s, o)
  \/ \E fv \in FieldInputs : SetField(fv[1], fv[2])
  \/ \E t \in EditorTabs : TabClick(t)
  \/ \E o \in EditorTabs \cup {"saveCard"} : HandleSave(o)
  \/ \E s \in Slots, o \in Outcomes : SaveDone(s, o)
  \/ \E s \in Slots : OnSaveTimer(s)
  \/ OnCancel

SpecShell == ShellInit /\ [][ShellNext]_vars
\* The social-link handlers on a card or a draft, without saves; of the
\* tabs, the two that hold their controls.
LinksNext ==
  \/ \E s \in Slots, o \in Outcomes : LoadCardDataDone(s, o)
  \/ \E h \in Handles \ {""} : HandleGlobalUsernameChange(h)
  \/ \E t \in {"basic", "social"} : TabClick(t)
  \/ \E p \in Platforms, h \in Handles : HandleAddSocialLink(p, h)
  \/ \E s \in Slots, o \in Outcomes : AddSocialLinkDone(s, o)
  \/ \E i \in 1..MaxLinks : HandleRemoveSocialLink(i)
  \/ \E s \in Slots, o \in Outcomes : RemoveSocialLinkDone(s, o)
  \/ HandleAutoSyncSocialLinks
  \/ \E s \in Slots, o \in Outcomes : AutoSyncDeleted(s, o)
  \/ \E s \in Slots, o \in Outcomes : AutoSyncInserted(s, o)

\* loadCardData's select is still awaited.
LinksLoading == \E s \in Slots : inflight[s].kind = "loadLinks"

\* Adds and removes of social links issued once the editor's list is loaded,
\* every remote call succeeding.
LinksOkNext ==
  \/ \E s \in Slots : LoadCardDataDone(s, "ok")
  \/ \E t \in {"basic", "social"} : TabClick(t)
  \/ \E p \in Platforms, h \in Handles :
       ~LinksLoading /\ HandleAddSocialLink(p, h)
  \/ \E s \in Slots : AddSocialLinkDone(s, "ok")
  \/ \E i \in 1..MaxLinks : ~LinksLoading /\ HandleRemoveSocialLink(i)
  \/ \E s \in Slots : RemoveSocialLinkDone(s, "ok")

\* Edits of the listed links' handles, with the auto-sync.
LinkEditNext ==
  \/ \E s \in Slots, o \in Outcomes : LoadCardDataDone(s, o)
  \/ \E h \in Handles \ {""} : HandleGlobalUsernameChange(h)
  \/ \E t \in {"basic", "social"} : TabClick(t)
  \/ \E i \in 1..MaxLinks, h \in Handles : HandleSocialLinkEdit(i, h)
  \/ \E s \in Slots, o \in Outcomes : SocialLinkEditDone(s, o)
  \/ HandleAutoSyncSocialLinks
  \/ \E s \in Slots, o \in Outcomes : AutoSyncDeleted(s, o)
  \/ \E s \in Slots, o \in Outcomes : AutoSyncInserted(s, o)

\* The creation of child records (links, media, reviews) on a draft that
\* gains its identity through the Basic tab's Next (variant 1) or starts
\* with one; of the tabs, those that hold the controls.
ChildrenNext ==
  \/ \E s \in Slots, o \in {"ok", "error"} : LoadUserCardsDone(s, o)
  \/ \E s \in Slots, o \in Outcomes : LoadCardDataDone(s, o)
  \/ \E h \in Handles \ {""} : HandleGlobalUsernameChange(h)
  \/ \E t \in {"basic", "social", "media", "reviews"} : TabClick(t)
  \/ \E o \in {"basic", "saveCard"} : HandleSave(o)
  \/ \E s \in Slots, o \in Outcomes : SaveDone(s, o)
  \/ \E p \in Platforms, h \in Handles : HandleAddSocialLink(p, h)
  \/ \E s \in Slots, o \in Outcomes : AddSocialLinkDone(s, o)
  \/ HandleAutoSyncSocialLinks
  \/ \E s \in Slots, o \in Outcomes : AutoSyncDeleted(s, o)
  \/ \E s \in Slots, o \in Outcomes : AutoSyncInserted(s, o)
  \/ OnMediaChange
  \/ OnReviewsChange

\* The username input alone, on a new draft or a card.
SlugNext == \E x \in Inputs : UsernameInput(x)

SpecSlug == Init /\ [][SlugNext]_vars

\* Field mutations, manual saves from the Basic tab and the auto-save.
AutoNext ==
  \/ \E s \in Slots, o \in {"ok", "error"} : LoadUserCardsDone(s, o)
  \/ \E s \in Slots, o \in Outcomes : LoadCardDataDone(s, o)
  \/ \E fv \in FieldInputs : MutateField(fv[1], fv[2])
  \/ \E o \in {"basic", "saveCard"} : HandleSave(o)
  \/ \E s \in Slots, o \in Outcomes : SaveDone(s, o)
  \/ \E s \in Slots : AutoSaveTick(s)
  \/ \E s \in Slots, o \in Outcomes : AutoSaveDone(s, o)

SpecAuto == Init /\ [][AutoNext]_vars

\* Imports into a draft or a card being edited.
ImportNext ==
  \/ \E snap \in Snapshots, parsed \in BOOLEAN : ImportSnapshot(snap, parsed)
  \/ \E s \in Slots, o \in Outcomes : LoadCardDataDone(s, o)

SpecImport == Init /\ [][ImportNext]_vars

\* Saves up to the final one and the hand-over to the shell.  A timer that
\* setTimeout has scheduled fires.
FinalNext ==
  \/ \E s \in Slots, o \in {"ok", "error"} : LoadUserCardsDone(s, o)
  \/ \E s \in Slots, o \in Outcomes : LoadCardDataDone(s, o)
  \/ \E t \in EditorTabs : TabClick(t)
  \/ \E o \in EditorTabs \cup {"saveCard"} : HandleSave(o)
  \/ \E s \in Slots, o \in Outcomes : SaveDone(s, o)
  \/ \E s \in Slots : OnSaveTimer(s)

SpecFinal ==
  Init /\ [][FinalNext]_vars /\ WF_vars(\E s \in Slots : OnSaveTimer(s))

Spec == Init /\ [][Next]_vars
SpecLinks == LinksInit /\ [][LinksNext]_vars
SpecLinkEdit == LinksInit /\ [][LinkEditNext]_vars
SpecLinksOk == LinksInit /\ [][LinksOkNext]_vars
SpecChildren == Init /\ [][ChildrenNext]_vars

\* ------------------------------------------------------------------ claims
\* C1: a save issued while the editor has no persisted identity is an
\* insert, and a save issued once an identity has been adopted is an update
\* keyed by that identity; no insert is issued once an identity exists.
C1_SaveKindFollowsIdentity ==
  last.ev = "saveIssued" =>
    IF last.identity = Null
      THEN last.op = "insert"
      ELSE last.op = "update" /\ last.key = last.identity

Outstanding == {s \in Slots : inflight[s] # NoOp}

\* The editor's local list holds exactly the card's stored links.
LocalMirrorsStore ==
  /\ {socialLinks[i] : i \in DOMAIN socialLinks}
       = {l \in dbLinks : l.card_id = Identity}
  /\ Len(socialLinks) = Cardinality({l \in dbLinks : l.card_id = Identity})

\* C2: the display_order values of one card's social links are pairwise
\* distinct because each new link gets the next free integer: a link whose
\* insert is issued with the local list loaded and nothing else outstanding
\* gets a display_order that no stored link of the card has.
C2_NewLinkGetsFreeOrder ==
  (last.ev = "linkInsertIssued" /\ Cardinality(Outstanding) = 1
     /\ LocalMirrorsStore) =>
    \A i \in DOMAIN last.rows : \A l \in dbLinks :
      l.card_id = last.identity =>
        l.display_order # last.rows[i].display_order

\* C3: two adds of a social link outstanding at once (the second issued
\* before the first one's remote call completed) carry different
\* display_order values.
C3_SuccessiveAddsIncrease ==
  \A s, t \in Slots :
    (s # t /\ inflight[s].kind = "addLink" /\ inflight[t].kind = "addLink"
       /\ inflight[s].row.card_id = inflight[t].row.card_id)
      => inflight[s].row.display_order # inflight[t].row.display_order

AutoSyncedIn(links) == {i \in DOMAIN links : links[i].is_auto_synced}

\* C4: after a successful auto-sync (its delete and its insert both
\* succeeded) the auto-synced links, in the editor's
\* local list and in the store, are exactly the newly generated ones (one per
\* platform, on the current global username): none of the previously
\* auto-synced links is left.
C4_AutoSyncReplaces ==
  (last.ev = "syncDone" /\ last.outcome = "ok" /\ last.deleted = "ok"
     /\ Mounted) =>
    /\ Cardinality(AutoSyncedIn(socialLinks)) = Len(AutoSyncPlatforms)
    /\ \A i \in AutoSyncedIn(socialLinks) :
         socialLinks[i].username = formData.globalUsername
    /\ Cardinality({l \in dbLinks : l.card_id = businessCard /\ l.is_auto_synced})
         = Len(AutoSyncPlatforms)

\* C5: a save whose remote call fails (error result or exception) raises
\* the alert and leaves the draft fields, the persisted identity and the
\* child lists as they were, with saving back to false in the editor that
\* issued it.
C5_FailedSaveKeepsState ==
  [][(last'.ev = "saveDone" /\ last'.outcome # "ok") =>
       /\ last'.alert = "Failed to save card"
       /\ formData' = formData
       /\ Identity' = Identity
       /\ socialLinks' = socialLinks
       /\ mediaItems' = mediaItems
       /\ reviews' = reviews
       /\ dbCards' = dbCards
       /\ last'.live => ~saving']_vars

\* C5 witness: a save of a persisted card with edited fields has failed.
C5_FailedSaveSeen ==
  /\ last.ev = "saveDone" /\ last.outcome # "ok" /\ last.live
  /\ Mounted /\ Identity # Null /\ edits > 0

\* C6: control is not handed back to the Admin Shell (onSave is not invoked)
\* after a failed save, from any control.
C6_NoHandOffAfterFailedSave ==
  last.ev = "onSave" => last.outcome \notin {"error", "throw"}

ChildKinds == {"addLink", "syncDelete", "syncInsert"}

\* C7: no child record is created without a persisted identity: every
\* social-link insert issued, outstanding or stored carries the id of a
\* stored card, the one the editor held when it was issued; while the editor
\* holds no identity none of its inserts is outstanding; and media items and
\* reviews exist only for stored cards.
C7_ChildrenNeedIdentity ==
  /\ last.ev = "linkInsertIssued" =>
       /\ last.identity \in CardIds
       /\ \A i \in DOMAIN last.rows : last.rows[i].card_id = last.identity
  /\ \A s \in Slots :
       /\ inflight[s].kind = "addLink" => inflight[s].row.card_id \in CardIds
       /\ inflight[s].kind \in {"syncDelete", "syncInsert"} =>
            \A i \in DOMAIN inflight[s].rows :
              inflight[s].rows[i].card_id \in CardIds
       /\ (inflight[s].kind \in ChildKinds /\ inflight[s].live) =>
            Identity # Null
  /\ \A l \in dbLinks : l.card_id \in CardIds
  /\ \A i \in DOMAIN mediaItems : mediaItems[i] \in CardIds
  /\ \A i \in DOMAIN reviews : reviews[i] \in CardIds
  /\ Identity = Null => mediaItems = <<>> /\ reviews = <<>>

\* C7 witness: on a new draft, an add of a link with a platform and a handle
\* was attempted and ignored.
C7_AddIgnoredWhileNew ==
  /\ last.ev = "addLinkIgnored" /\ last.identity = Null
  /\ last.platform # "" /\ last.username # ""
  /\ existingCard = NoCard /\ Mounted

FirstInsertDone ==
  /\ last'.ev = "saveDone" /\ last'.outcome = "ok" /\ last'.op = "insert"
  /\ last'.live /\ Identity = Null

\* C8 as stated: when the first successful save of a new draft completes,
\* the editor's identity is the inserted record's id and adding a social
\* link is enabled against it.
C8_FirstSaveEnablesChildren ==
  [][FirstInsertDone =>
       /\ Identity' = last'.id
       /\ MayAddSocialLink("GitHub", "jd")']_vars

\* C8 amended: when the first successful save of a new draft completes, the
\* tabbed editor (variant 1) holds the inserted record's id, a stored card's,
\* with the add of a social link and the media and reviews sub-editors
\* enabled against it; the editor with the Save Card button (variant 2) has
\* handed control back to the shell and is closed.
C8_FirstSaveAdoptsIdentity ==
  [][FirstInsertDone =>
       IF variant = 1
         THEN /\ businessCard' = last'.id
              /\ last'.id \in CardIds'
              /\ Mounted'
              /\ MayAddSocialLink("GitHub", "jd")'
              /\ \A t \in {"media", "reviews"} :
                   activeTab' = t => SubEditorShown(t)'
         ELSE /\ ~Mounted'
              /\ editingCard' = NoCard
              /\ cardId' = Null
              /\ last'.id \in CardIds']_vars

\* C8 witness: the Social tab's Next made the first insert of a new draft
\* and the media sub-editor shows for the adopted id.
C8_AdoptedAndShown ==
  /\ last.ev = "saveDone" /\ last.outcome = "ok" /\ last.op = "insert"
  /\ last.live /\ variant = 1 /\ existingCard = NoCard
  /\ businessCard = last.id /\ SubEditorShown("media")

DuplicateStripsAndResets ==
  /\ last.payload.is_published = FALSE
  /\ last.payload.view_count = 0
  /\ DOMAIN last.payload \cap {"id", "created_at", "updated_at", "slug"} = {}
  /\ last.payload.user_id = last.source.user_id
  /\ \A c \in {"company", "email", "shape"} : last.payload[c] = last.source[c]
  /\ last.row \in dbCards
  /\ last.row.id # last.source.id
  /\ last.row.slug = NULL
  /\ ~last.row.is_published
  /\ last.row.view_count = 0

\* C9 as stated: the record a duplicate inserts is unpublished with a zero
\* view counter, carries none of the source's id, created_at, updated_at or
\* slug, and keeps the owner and every other display field of the source,
\* the title among them.
C9_DuplicateKeepsFields ==
  (last.ev = "duplicated" /\ last.outcome = "ok") =>
    /\ DuplicateStripsAndResets
    /\ last.payload.title = last.source.title

\* C9 amended: ... and keeps the owner and the other display fields of the
\* source, except the title, which is the source's title followed by
\* " (Copy)".
C9_DuplicateResets ==
  (last.ev = "duplicated" /\ last.outcome = "ok") =>
    /\ DuplicateStripsAndResets
    /\ last.payload.title = last.source.title \o " (Copy)"

\* C9 witness: a published card with views and a slug was duplicated.
C9_PublishedDuplicated ==
  /\ last.ev = "duplicated" /\ last.outcome = "ok"
  /\ last.source.is_published /\ last.source.view_count > 0
  /\ last.source.slug # NULL

\* C10 as stated: after a successful duplicate the editor is open on the
\* inserted copy (the shell's editing target is the new record).
C10_DuplicateOpensEditor ==
  (last.ev = "duplicated" /\ last.outcome = "ok") =>
    editingCard = last.row /\ shellTab = "create"

\* C10 amended: a successful duplicate leaves the shell's tab and editing
\* target as they were and reloads the card list.
C10_DuplicateReloadsList ==
  [][(last'.ev = "duplicated" /\ last'.outcome = "ok") =>
       /\ shellTab' = shellTab
       /\ editingCard' = editingCard
       /\ editingCard' # last'.row
       /\ loading'
       /\ \E s \in Slots : inflight'[s] = LoadOp("none", Null, Null)]_vars

\* C10 witness: a duplicate succeeded with the shell on the list, nothing
\* being edited, the reload under way.
C10_DuplicatedOnList ==
  /\ last.ev = "duplicated" /\ last.outcome = "ok"
  /\ shellTab = "cards" /\ editingCard = NoCard /\ loading

Lowered(x) == [i \in 1..Len(x) |-> ToLowerCase(x[i])]
IsLetterOrDigit(c) == c \in {"a", "b", "7"}
IsHyphenOrUnderscore(c) == c \in {"-", "_"}
SlugChar(c) == IsLetterOrDigit(c) \/ IsHyphenOrUnderscore(c)

\* C11 as stated: the stored username is the input lower-cased with every
\* character dropped that is not a lower-case ASCII letter, a digit, a hyphen
\* or an underscore.
C11_SlugKeepsHyphenUnderscore ==
  last.ev = "usernameInput" =>
    /\ last.stored = SelectSeq(Lowered(last.input), SlugChar)
    /\ formData.username = Join(last.stored)

\* C11 amended: the stored username holds only lower-case ASCII letters,
\* digits and (variant 2) hyphens: it is the input lower-cased with every
\* other character dropped, the underscore always and the hyphen in variant
\* 1; the input is never rejected.
C11_SlugSanitized ==
  last.ev = "usernameInput" =>
    LET Allowed(c) == IsLetterOrDigit(c) \/ (variant = 2 /\ c = "-")
    IN  /\ \A i \in DOMAIN last.stored : SlugChar(last.stored[i])
        /\ last.stored = SelectSeq(Lowered(last.input), Allowed)
        /\ formData.username = Join(last.stored)

\* C11 witness: an input of upper-case, hyphen and underscore was stored.
C11_MixedInputStored ==
  /\ last.ev = "usernameInput"
  /\ last.input = <<"B", "-", "_">>
  /\ formData.username \in {"b", "b-"}

SavesIn(pending) == {s \in Slots : pending[s].kind = "save"}

\* C12: a save of a new draft whose username is u and whose published flag
\* is as seeded issues one insert, with slug u (null when u is empty),
\* is_published false and no view_count in its payload.
C12_NewDraftInsertPayload ==
  [][(last'.ev = "saveIssued" /\ existingCard = NoCard /\ Identity = Null
        /\ ~formData.is_published) =>
       /\ last'.op = "insert"
       /\ last'.payload.slug =
            (IF formData.username = "" THEN NULL ELSE formData.username)
       /\ last'.payload.title = formData.title
       /\ last'.payload.is_published = FALSE
       /\ "view_count" \notin DOMAIN last'.payload
       /\ Cardinality(SavesIn(inflight')) = Cardinality(SavesIn(inflight)) + 1
       /\ \E s \in SavesIn(inflight') \ SavesIn(inflight) :
            /\ inflight'[s].op = "insert"
            /\ inflight'[s].payload = last'.payload]_vars

\* C12 witness: a new draft titled Jane with username jane was saved.
C12_JaneSaved ==
  /\ last.ev = "saveIssued" /\ last.identity = Null /\ last.op = "insert"
  /\ last.payload.title = "Jane" /\ last.payload.slug = "jane"
  /\ ~last.payload.is_published

TimersIn(pending) == {s \in Slots : pending[s].kind = "autoTimer"}
AutoSavesIn(pending) == {s \in Slots : pending[s].kind = "autoSave"}

\* What C13 says of every step: at most one idle timer is pending; a field
\* mutation issues no persistence call; when the timer fires, one update is
\* issued, keyed and filled as the last mutation armed it, with the latest
\* field values.
QuietPeriodSavesOnce ==
  /\ Cardinality(TimersIn(inflight')) <= 1
  /\ last'.ev = "mutated" =>
       Cardinality(AutoSavesIn(inflight')) = Cardinality(AutoSavesIn(inflight))
  /\ last'.ev = "autoSaveIssued" =>
       /\ TimersIn(inflight') = {}
       /\ Cardinality(AutoSavesIn(inflight')) =
            Cardinality(AutoSavesIn(inflight)) + 1
       /\ \E s \in TimersIn(inflight) :
            /\ inflight'[s] = [inflight[s] EXCEPT !.kind = "autoSave"]
            /\ inflight'[s].key = last'.key
            /\ inflight'[s].payload = CardData(formData)
            /\ last'.key \in CardIds

TimerArmed ==
  \E s \in TimersIn(inflight') :
    /\ inflight'[s].key = Identity
    /\ inflight'[s].payload = CardData(formData')

\* C13 as stated: in an editor with a persisted identity every field
\* mutation leaves the single idle timer armed for an update keyed by that
\* identity with the latest field values, which the quiet period then issues
\* once.
C13_EveryMutationArms ==
  [][/\ QuietPeriodSavesOnce
     /\ (last'.ev = "mutated" /\ Identity # Null) => TimerArmed]_vars

\* C13 amended: ... a field mutation made while no manual save is in flight
\* leaves the single idle timer armed so; a mutation made while a manual save
\* is in flight, or without identity, clears the timer and arms none, so no
\* auto-save follows it.
C13_MutationArmsUnlessSaving ==
  [][/\ QuietPeriodSavesOnce
     /\ (last'.ev = "mutated" /\ Identity # Null /\ ~saving) => TimerArmed
     /\ (last'.ev = "mutated" /\ (Identity = Null \/ saving)) =>
          TimersIn(inflight') = {}]_vars

\* C13 witness: after two mutations of a card the timer fired once, with
\* the second mutation's values.
C13_AutoSavedLatest ==
  /\ last.ev = "autoSaveIssued" /\ edits = 2 /\ Mounted
  /\ last.key = Identity /\ last.payload = CardData(formData)
  /\ Cardinality(AutoSavesIn(inflight)) = 1

\* C14: an auto-save is issued only with a persisted identity and only
\* while no manual save is in flight, and a failed auto-save raises no alert.
C14_AutoSaveGuarded ==
  /\ last.ev = "autoSaveIssued" =>
       /\ last.key # Null
       /\ ~saving
       /\ \A s \in Slots : ~(inflight[s].kind = "save" /\ inflight[s].live)
  /\ last.ev = "autoSaveDone" => last.alert = ""

\* C15: after the import of a snapshot whose username is u the draft's
\* username is u followed by "-imported", and every other field and the child
\* collections are the snapshot's, whatever they hold.
C15_ImportAppendsSuffix ==
  (last.ev = "imported" /\ last.parsed) =>
    /\ formData.username = last.snapshot.username \o "-imported"
    /\ \A f \in FormFields \ {"username"} : formData[f] = last.snapshot[f]
    /\ socialLinks = last.snapshot.socialLinks
    /\ mediaItems = last.snapshot.mediaItems
    /\ reviews = last.snapshot.reviews

\* C15 witness: a snapshot of bob with a link of another card was imported.
C15_BobImported ==
  /\ last.ev = "imported" /\ last.parsed
  /\ last.snapshot.username = "bob" /\ formData.username = "bob-imported"
  /\ Len(socialLinks) = 1 /\ formData.email = "not an email"

FinalSaveSucceeded ==
  /\ last.ev = "saveDone" /\ last.outcome = "ok" /\ last.live
  /\ last.origin \in {"design", "saveCard"}

\* C16: when onSave runs after a successful final save (the Design tab's
\* Save, the Save Card button) the shell shows the cards view, has no editing
\* target and has issued the reload of the list; and a successful final save
\* leads to it.
C16_FinalSaveReturnsControl ==
  /\ [][((last'.ev = "onSave" /\ last'.outcome = "ok")
           \/ (last'.ev = "saveDone" /\ last'.outcome = "ok"
                 /\ last'.origin = "saveCard")) =>
          /\ shellTab' = "cards"
          /\ editingCard' = NoCard
          /\ ~Mounted'
          /\ loading'
          /\ \E s \in Slots : inflight'[s] = LoadOp("none", Null, Null)]_vars
  /\ (FinalSaveSucceeded ~> (shellTab = "cards" /\ editingCard = NoCard))

\* C16 witness: the timer of a successful Design-tab save of a card has
\* fired.
C16_HandedBack ==
  /\ last.ev = "onSave" /\ last.outcome = "ok"
  /\ shellTab = "cards" /\ editingCard = NoCard /\ loading
  /\ dbCards # {}

\* C17: when the user declines the confirmation of a delete, no remote
\* delete is issued and the stored cards, the card list, the editing target
\* and the active view are unchanged.
C17_DeclinedDeleteDoesNothing ==
  [][(last'.ev = "deleteCard" /\ ~last'.confirmed) =>
       /\ inflight' = inflight
       /\ dbCards' = dbCards
       /\ cards' = cards
       /\ editingCard' = editingCard
       /\ shellTab' = shellTab]_vars

\* C17 witness: the delete of a listed, stored card was declined.
C17_DeleteDeclined ==
  /\ last.ev = "deleteCard" /\ ~last.confirmed
  /\ last.cardId \in CardIds /\ Len(cards) > 0
  /\ \A s \in Slots : inflight[s].kind # "delete"

LoadsIn(pending) == {s \in Slots : pending[s].kind = "load"}

\* C18: a delete or a duplicate issues its remote call without reloading;
\* when the call has succeeded the reload of the full list is issued, the
\* in-memory list changing only with the reload's answer; when the call has
\* failed an alert is raised, no reload is issued and the list is unchanged.
C18_ReloadOnlyAfterSuccess ==
  [][/\ last'.ev \in {"deleteCard", "duplicateCard"} =>
          /\ LoadsIn(inflight') = LoadsIn(inflight)
          /\ cards' = cards /\ dbCards' = dbCards
     /\ (last'.ev \in {"deleted", "duplicated"} /\ last'.outcome = "ok") =>
          /\ Cardinality(LoadsIn(inflight')) = Cardinality(LoadsIn(inflight)) + 1
          /\ loading'
          /\ cards' = cards
          /\ last'.ev = "deleted" =>
               \A c \in dbCards' : c.id # last'.cardId
          /\ last'.ev = "duplicated" => dbCards \subseteq dbCards'
                                          /\ dbCards' # dbCards
     /\ (last'.ev \in {"deleted", "duplicated"} /\ last'.outcome # "ok") =>
          /\ last'.alert # ""
          /\ LoadsIn(inflight') = LoadsIn(inflight)
          /\ loading' = loading
          /\ cards' = cards
          /\ dbCards' = dbCards
     /\ cards' # cards => last'.ev = "loaded" /\ last'.outcome = "ok"]_vars

\* C18 witness: the reload issued by a successful delete has brought the
\* list without the deleted card.
C18_ReloadedAfterDelete ==
  /\ last.ev = "loaded" /\ last.outcome = "ok" /\ last.cont = "delete"
  /\ cards = <<>> /\ dbCards = {} /\ cardSeq > 0

\* C19: an add or a remove of a social link that fails leaves the local link
\* list and the stored links exactly as they were, so that what the earlier
\* successful calls applied stays applied; one that succeeds changes the
\* store by its one row.
C19_FailedLinkCallChangesNothing ==
  [][/\ (last'.ev \in {"linkAdded", "linkRemoved"} /\ last'.outcome # "ok") =>
          /\ socialLinks' = socialLinks
          /\ dbLinks' = dbLinks
          /\ linkSeq' = linkSeq
          /\ last'.alert = ""
     /\ (last'.ev = "linkAdded" /\ last'.outcome = "ok") =>
          /\ dbLinks \subseteq dbLinks'
          /\ Cardinality(dbLinks') = Cardinality(dbLinks) + 1
     /\ (last'.ev = "linkRemoved" /\ last'.outcome = "ok") =>
          /\ dbLinks' \subseteq dbLinks
          /\ Cardinality(dbLinks') >= Cardinality(dbLinks) - 1]_vars

\* C19 witness: an add has failed while a link added earlier in the session
\* is on the local list and in the store.
C19_FailedAfterSuccess ==
  /\ last.ev = "linkAdded" /\ last.outcome = "error"
  /\ \E i \in DOMAIN socialLinks :
       socialLinks[i] \notin StoredLinks /\ socialLinks[i] \in dbLinks

\* The cards of the grid that an action of the grid names.
ActedOn(id) == {cards[i] : i \in {j \in DOMAIN cards : cards[j].id = id}}

\* C20: the URL copied or opened for a card is the current origin followed
\* by /c/ and the card's slug; a URL is copied only for a card whose slug is
\* set, and opened only for a card that is published and whose slug is set.
C20_PublicUrlAndOffers ==
  [][/\ last'.ev = "copyUrl" =>
          \E card \in ActedOn(last'.cardId) :
            /\ card.slug \notin {NULL, ""}
            /\ last'.url = last'.origin \o "/c/" \o card.slug
     /\ last'.ev = "openCard" =>
          \E card \in ActedOn(last'.cardId) :
            /\ card.is_published = TRUE
            /\ card.slug \notin {NULL, ""}
            /\ last'.url = last'.origin \o "/c/" \o card.slug]_vars

\* C20 witness: the URL of an unpublished card with a slug has been copied.
C20_DraftUrlCopied ==
  /\ last.ev = "copyUrl" /\ last.url = "https://cards.example/c/jd"
  /\ \E card \in ActedOn(last.cardId) : ~card.is_published

\* C21: with a user signed in, whenever the mounted editor's active tab
\* changes, the change comes with a save of the draft: it is the step in
\* which the save awaited by the control completes.
C21_TabChangeSaves ==
  [][(user # Null /\ Mounted /\ Mounted' /\ activeTab' # activeTab) =>
       last'.ev = "saveDone"]_vars

\* C22: while the editor stays open, an identity it holds never changes, and
\* every save issued while it holds one is an update of that record.
C22_IdentityIsStable ==
  [][(Mounted /\ Mounted' /\ Identity # Null) =>
       /\ Identity' = Identity
       /\ last'.ev = "saveIssued" =>
            last'.op = "update" /\ last'.key = Identity]_vars

\* An empty column value: null or the empty string.
IsEmpty(v) == v \in {"", NULL}

\* The columns the draft is seeded from and the save writes back.
RoundTripColumns == {"title", "company", "email", "shape", "is_published"}

\* C23: a save issued by an editor opened on an existing record, before any
\* edit, is an update of that record whose columns equal the record's, an
\* empty value staying empty.
C23_UneditedSaveKeepsRecord ==
  [][(last'.ev = "saveIssued" /\ edits = 0 /\ existingCard.id # Null) =>
       /\ last'.op = "update" /\ last'.key = existingCard.id
       /\ \A c \in RoundTripColumns :
            \/ last'.payload[c] = existingCard[c]
            \/ IsEmpty(last'.payload[c]) /\ IsEmpty(existingCard[c])]_vars

\* C24: at most one save of the open editor is in flight, and no save is
\* issued while the saving flag is set.
C24_OneSaveInFlight ==
  [][last'.ev = "saveIssued" =>
       /\ ~saving
       /\ \A s \in Slots : ~(inflight[s].kind = "save" /\ inflight[s].live)
    ]_vars

\* C25: the remote calls of the adds and removes all succeeding, whenever no
\* call is in flight the open editor's local list holds exactly the links
\* stored for the card.
C25_SettledListMirrorsStore ==
  (Mounted /\ Identity # Null /\ Outstanding = {}) => LocalMirrorsStore

\* C26: the create view entered through a create-new-card control (the
\* header or empty-state button, or the sidebar's item) has no editing
\* target: the editor opens on an empty draft.
C26_CreateOpensEmptyDraft ==
  [][(\/ last'.ev = "createCard"
      \/ last'.ev = "sidebar" /\ last'.tab = "create") =>
       /\ shellTab' = "create"
       /\ editingCard' = NoCard
       /\ Identity' = Null]_vars

\* C27: when the save a Next button awaited has failed, the active tab stays
\* where it was, whatever the tab.
C27_FailedSaveKeepsTab ==
  [][(last'.ev = "saveDone" /\ last'.outcome # "ok") =>
       activeTab' = activeTab]_vars

\* The link with id `id` in the list `links`, as a set (empty when absent).
Listed(links, id) == {links[i] : i \in {j \in DOMAIN links : links[j].id = id}}

\* C28: a successful edit of a link's handle leaves that link not
\* auto-synced in the store and on the local list, and leaves every other
\* link as it was in both; the delete of an auto-sync removes no link that
\* is not auto-synced.
C28_EditMarksOnlyItsLink ==
  [][/\ (last'.ev = "linkEdited" /\ last'.outcome = "ok" /\ Mounted) =>
          /\ \A l \in dbLinks' : l.id = last'.linkId => ~l.is_auto_synced
          /\ \A l \in Listed(socialLinks', last'.linkId) : ~l.is_auto_synced
          /\ \A l \in dbLinks : l.id # last'.linkId => l \in dbLinks'
          /\ \A i \in DOMAIN socialLinks :
               socialLinks[i].id # last'.linkId =>
                 i \in DOMAIN socialLinks' /\ socialLinks'[i] = socialLinks[i]
          /\ Len(socialLinks') = Len(socialLinks)
     /\ \A s \in Slots :
          (inflight[s].kind = "syncDelete" /\ inflight'[s].kind # "syncDelete") =>
            \A l \in dbLinks : ~l.is_auto_synced => l \in dbLinks'
    ]_vars

\* C29: once the handler of a successful delete has finished (its reload is
\* no longer awaited), the shell's editing target is not the deleted card:
\* an editing target always references a stored card.
C29_TargetNeverDeleted ==
  (editingCard.id # Null /\ editingCard.id \notin CardIds) =>
    \E s \in Slots :
      /\ inflight[s].kind = "load" /\ inflight[s].cont = "delete"
      /\ inflight[s].cardId = editingCard.id

\* C30: in the editor with the Save Card button a save is issued only while
\* no save of the editor is pending and the draft's title and username are
\* not empty; without a signed-in user a save is never issued, and the
\* skipped save leaves the store, the draft, the saving flag and the
\* identity as they were (in the editor with the Save Card button, all of
\* the state).
C30_SaveCardGuarded ==
  [][/\ (variant = 2 /\ last'.ev = "saveIssued") =>
          /\ ~saving
          /\ \A s \in Slots : ~(inflight[s].kind = "save" /\ inflight[s].live)
          /\ formData.title # "" /\ formData.username # ""
     /\ last'.ev = "saveIssued" => user # Null
     /\ last'.ev = "saveSkipped" =>
          /\ user = Null
          /\ SavesIn(inflight') = SavesIn(inflight)
          /\ UNCHANGED <<dbVars, formData, saving, businessCard, cardId>>
          /\ variant = 2 =>
               UNCHANGED <<shellVars, editorVars, inflight>>]_vars

\* C30 witness: the Save Card button has issued a save.
C30_SaveCardIssued ==
  /\ variant = 2 /\ last.ev = "saveIssued" /\ last.origin = "saveCard"
  /\ saving /\ formData.title # "" /\ formData.username # ""
====
